---- MODULE Spec2Model ----
(***************************************************************************)
(* Model of the analysis pipeline of LineTalkAnalyzer (src/main.py):       *)
(* discovery of *.txt files, encoding-tolerant line counting, ranking by   *)
(* line count, the ranking table and the exclusion-filtered chart series.  *)
(*                                                                         *)
(* Text is modelled as a sequence of one-character strings, so that        *)
(* strip(), split(","), str() and the thousands format are computed. A     *)
(* file name is the characters of its stem followed by its extension.      *)
(*                                                                         *)
(* Four specifications share the variables:                                *)
(*   Spec        the window: the directory and the exclusion text change   *)
(*               between presses of the button;                            *)
(*   SpecIngest  one press of the button over every bounded listing;       *)
(*   SpecRank    the sort of load_and_analyze over every bounded list;     *)
(*   SpecFilter  update_graph over every bounded ranking and text.         *)
(***************************************************************************)
EXTENDS Integers, Sequences, FiniteSets, TLC

VARIABLES
    files,          \* what glob.glob(target_dir/*.txt) returns, in discovery order
    exclude_input,  \* text of the QLineEdit self.exclude_input
    collected,      \* local `data` of the latest request when the loop ends (line 118)
    data,           \* local `data` of the latest request after data.sort (line 121)
    table,          \* rows of self.table: [rank, name, count], all three as text
    chart_names,    \* labels handed to set_yticklabels (names[::-1])
    chart_counts,   \* widths handed to barh (counts[::-1])
    printed,        \* diagnostics print()ed by the latest request
    warned,         \* the latest request raised the QMessageBox.warning
    pc              \* position: "idle"/"returned" for the window, or a step of a function check

vars == <<files, exclude_input, collected, data, table,
          chart_names, chart_counts, printed, warned, pc>>

----------------------------------------------------------------------------
(* Bounds of the model *)

\* most files in the directory of the window specification
MaxFiles == 3
\* most files in the directory of the ingestion specification
MaxListed == 3
\* most records handed to the ranking step of the ranking specification
MaxRecords == 4
\* most records handed to the chart of the filter specification
MaxRanked == 2
\* longest exclusion text of the filter specification
MaxLen == 4
\* largest line count drawn for a file or record
MaxCount == 2

----------------------------------------------------------------------------
(* Sequences *)

Reverse(s) == [i \in 1..Len(s) |-> s[Len(s) + 1 - i]]

Range(s) == {s[i] : i \in DOMAIN s}

\* all sequences over S of length at most n
SeqsUpTo(S, n) == UNION {[1..k -> S] : k \in 0..n}

----------------------------------------------------------------------------
(* Text: str.strip(), str.split(","), str(i) and f"{n:,}" *)

\* the characters str.strip() removes that a line edit can hold
Whitespace == {" ", "\t"}

RECURSIVE LStrip(_)
LStrip(s) ==
    IF s # <<>> /\ Head(s) \in Whitespace THEN LStrip(Tail(s)) ELSE s

RECURSIVE RStrip(_)
RStrip(s) ==
    IF s # <<>> /\ s[Len(s)] \in Whitespace
    THEN RStrip(SubSeq(s, 1, Len(s) - 1))
    ELSE s

\* str.strip(): leading and trailing whitespace removed
Strip(s) == RStrip(LStrip(s))

\* str.split(","): the pieces between the commas, empty pieces kept
RECURSIVE Split(_)
Split(s) ==
    IF \A i \in DOMAIN s : s[i] # ","
    THEN <<s>>
    ELSE LET i == CHOOSE k \in DOMAIN s :
                      /\ s[k] = ","
                      /\ \A j \in 1..(k - 1) : s[j] # ","
         IN  <<SubSeq(s, 1, i - 1)>> \o Split(SubSeq(s, i + 1, Len(s)))

DigitChar(d) == <<"0", "1", "2", "3", "4", "5", "6", "7", "8", "9">>[d + 1]

\* str(n) for n >= 0
RECURSIVE Str(_)
Str(n) ==
    IF n < 10 THEN <<DigitChar(n)>>
    ELSE Str(n \div 10) \o <<DigitChar(n % 10)>>

\* the three digits of a group after the first
Group3(n) ==
    <<DigitChar(n \div 100), DigitChar((n \div 10) % 10), DigitChar(n % 10)>>

\* f"{n:,}" for n >= 0: decimal digits with a comma between groups of three
RECURSIVE FormatCount(_)
FormatCount(n) ==
    IF n < 1000 THEN Str(n)
    ELSE FormatCount(n \div 1000) \o <<",">> \o Group3(n % 1000)

----------------------------------------------------------------------------
(* Ranking: data.sort(key=lambda x: x["count"], reverse=True) *)

\* insertion of x into t (ascending by count) behind every element whose
\* count is not larger: the step of a stable ascending sort
Insert(x, t) ==
    LET k == Cardinality({i \in DOMAIN t : t[i].count <= x.count})
    IN  SubSeq(t, 1, k) \o <<x>> \o SubSeq(t, k + 1, Len(t))

\* stable ascending sort by count
RECURSIVE SortAsc(_)
SortAsc(s) ==
    IF s = <<>> THEN <<>>
    ELSE Insert(s[Len(s)], SortAsc(SubSeq(s, 1, Len(s) - 1)))

\* a descending sort that reverses an ascending one: ties come out reversed
RankTiesReversed(s) == Reverse(SortAsc(s))

\* a sort that drops reverse=True
RankAscending(s) == SortAsc(s)

\* list.sort with reverse=True: the list is reversed, sorted ascending by a
\* stable sort, and reversed again, which keeps equal keys in input order
Rank(s) == Reverse(SortAsc(Reverse(s)))

----------------------------------------------------------------------------
(* Files and their reading *)

\* what open(...).readlines() under one encoding ends with
Outcomes == {"ok", "UnicodeDecodeError", "OSError"}

\* os.path.splitext(os.path.basename(file_path))[0]: the name without its
\* last extension
Nickname(filename) == SubSeq(filename, 1, Len(filename) - 1)

\* with open(file_path, 'r', encoding=...) as f: len(f.readlines())
\* The lines are delimited by bytes that both encodings decode alike, so a
\* file has one line count whichever encoding decodes it.
OpenAndCount(f, encoding) ==
    LET o == IF encoding = "utf-8" THEN f.utf8 ELSE f.cp932
    IN  [ok |-> o = "ok",
         line_count |-> IF o = "ok" THEN f.lines ELSE 0,
         error |-> o]

\* a reading that falls back to cp932 after any failure of the first attempt
ReadFileRetryAlways(f) ==
    LET first == OpenAndCount(f, "utf-8")
    IN  IF first.ok THEN first ELSE OpenAndCount(f, "cp932")

\* the inner try: utf-8 first, cp932 only after a UnicodeDecodeError
ReadFile(f) ==
    LET first == OpenAndCount(f, "utf-8")
    IN  IF first.ok THEN first
        ELSE IF first.error = "UnicodeDecodeError"
             THEN OpenAndCount(f, "cp932")
             ELSE first

\* data.append({"name": nickname, "count": line_count})
Keep(acc, f, r) ==
    [acc EXCEPT !.data =
        Append(@, [name |-> Nickname(f.filename), count |-> r.line_count])]

\* a handler that reports the failure and then falls through to the append
SkipAsZero(acc, f, r) ==
    [data |-> Append(acc.data, [name |-> Nickname(f.filename), count |-> 0]),
     printed |-> Append(acc.printed, [filename |-> f.filename, error |-> r.error])]

\* except Exception as e: print(f"Error reading {filename}: {e}"); continue
Skip(acc, f, r) ==
    [acc EXCEPT !.printed =
        Append(@, [filename |-> f.filename, error |-> r.error])]

\* the for loop over the discovered files
RECURSIVE Ingest(_)
Ingest(fs) ==
    IF fs = <<>> THEN [data |-> <<>>, printed |-> <<>>]
    ELSE LET acc == Ingest(SubSeq(fs, 1, Len(fs) - 1))
             f   == fs[Len(fs)]
             r   == ReadFile(f)
         IN  IF r.ok THEN Keep(acc, f, r) ELSE Skip(acc, f, r)

----------------------------------------------------------------------------
(* Table and chart *)

\* update_table: one row per record, rank str(i + 1) for the 0-based i
TableRows(d) ==
    [i \in 1..Len(d) |->
        [rank |-> Str(i), name |-> d[i].name, count |-> FormatCount(d[i].count)]]

NonEmpty(s) == s # <<>>

\* [name.strip() for name in exclude_text.split(",") if name.strip()]
StrippedTerms(exclude_text) ==
    LET pieces == Split(exclude_text)
        kept   == SelectSeq(pieces, LAMBDA name : NonEmpty(Strip(name)))
    IN  [i \in 1..Len(kept) |-> Strip(kept[i])]

\* exclude_names of update_graph
ExcludeNames(text) ==
    LET exclude_text == Strip(text)
    IN  IF NonEmpty(exclude_text) THEN StrippedTerms(exclude_text) ELSE <<>>

\* s occurs in t as a contiguous part
IsSubstring(s, t) ==
    \E i \in 1..(Len(t) + 1) :
        /\ i + Len(s) - 1 <= Len(t)
        /\ SubSeq(t, i, i + Len(s) - 1) = s

\* a membership test that matches a name inside a term
InNamesPartial(name, exclude_names) ==
    \E i \in DOMAIN exclude_names : IsSubstring(name, exclude_names[i])

\* d["name"] in exclude_names, a list of strings
InNames(name, exclude_names) ==
    \E i \in DOMAIN exclude_names : exclude_names[i] = name

\* filtered_data = [d for d in data if d["name"] not in exclude_names]
FilteredData(d, text) ==
    LET exclude_names == ExcludeNames(text)
    IN  SelectSeq(d, LAMBDA r : ~InNames(r.name, exclude_names))

\* a chart that draws the series in ranked order
ChartOrderAsRanked(s) == s

\* counts[::-1] and names[::-1]
ChartOrder(s) == Reverse(s)

Names(d) == [i \in 1..Len(d) |-> d[i].name]

Counts(d) == [i \in 1..Len(d) |-> d[i].count]

----------------------------------------------------------------------------
(* The handler of the button and the two updates it ends with *)

\* a table that gets its rows added below those it holds
UpdateTableAppends(d) == table' = table \o TableRows(d)

\* a table that is fed the series of the chart
UpdateTableFiltered(d) == table' = TableRows(FilteredData(d, exclude_input))

\* setRowCount(len(data)) and setItem for every row: the rows are replaced
UpdateTable(d) == table' = TableRows(d)

\* axes.cla(), then the filtered series drawn bottom-to-top
UpdateGraph(d) ==
    LET filtered_data == FilteredData(d, exclude_input)
    IN  /\ chart_names' = ChartOrder(Names(filtered_data))
        /\ chart_counts' = ChartOrder(Counts(filtered_data))

\* a guard that clears the display before it returns
NoFilesClears ==
    /\ files = <<>>
    /\ warned' = TRUE
    /\ table' = <<>>
    /\ chart_names' = <<>>
    /\ chart_counts' = <<>>
    /\ collected' = <<>>
    /\ data' = <<>>
    /\ printed' = <<>>
    /\ pc' = "returned"
    /\ UNCHANGED <<files, exclude_input>>

\* if not files: QMessageBox.warning(...); return
\* No list is built by such a request: collected and data are empty.
NoFiles ==
    /\ files = <<>>
    /\ warned' = TRUE
    /\ collected' = <<>>
    /\ data' = <<>>
    /\ printed' = <<>>
    /\ pc' = "returned"
    /\ UNCHANGED <<files, exclude_input, table, chart_names, chart_counts>>

\* the loop, the sort and the two updates
AnalyzeFiles ==
    /\ files # <<>>
    /\ LET r      == Ingest(files)
           ranked == Rank(r.data)
       IN  /\ collected' = r.data
           /\ printed' = r.printed
           /\ data' = ranked
           /\ UpdateTable(ranked)
           /\ UpdateGraph(ranked)
    /\ warned' = FALSE
    /\ pc' = "returned"
    /\ UNCHANGED <<files, exclude_input>>

\* load_and_analyze, the slot of the button
LoadAndAnalyze ==
    /\ pc \in {"idle", "returned"}
    /\ (NoFiles \/ AnalyzeFiles)

----------------------------------------------------------------------------
(* The window: the user changes the directory and the exclusion text        *)
(* between requests                                                         *)

File(filename, utf8, cp932, lines) ==
    [filename |-> filename, utf8 |-> utf8, cp932 |-> cp932, lines |-> lines]

FileNames(fs) == {fs[i].filename : i \in DOMAIN fs}

\* the files the user of the window specification may put in the directory;
\* a.txt and a.TXT share the nickname "a" (both match on a platform whose
\* glob ignores case)
Catalogue ==
    { File(<<"a", ".txt">>, "ok", "ok", 3),
      File(<<"a", ".TXT">>, "UnicodeDecodeError", "ok", 1200),
      File(<<"b", ".txt">>, "ok", "UnicodeDecodeError", 3),
      File(<<"c", ".txt">>, "UnicodeDecodeError", "UnicodeDecodeError", 7) }

\* the exclusion texts the user of the window specification may type
Typed == { <<>>, <<"a">>, <<" ", "b", ",", ",", "c", " ">> }

InitWindow ==
    /\ files = <<>>
    /\ exclude_input = <<>>
    /\ collected = <<>>
    /\ data = <<>>
    /\ table = <<>>
    /\ chart_names = <<>>
    /\ chart_counts = <<>>
    /\ printed = <<>>
    /\ warned = FALSE
    /\ pc = "idle"

\* a file appears in the directory; the listing order is the file system's
AddFile ==
    /\ pc \in {"idle", "returned"}
    /\ Len(files) < MaxFiles
    /\ \E f \in Catalogue, i \in 0..Len(files) :
          /\ f.filename \notin FileNames(files)
          /\ files' = SubSeq(files, 1, i) \o <<f>> \o SubSeq(files, i + 1, Len(files))
    /\ pc' = "idle"
    /\ UNCHANGED <<exclude_input, collected, data, table,
                   chart_names, chart_counts, printed, warned>>

\* a file leaves the directory
RemoveFile ==
    /\ pc \in {"idle", "returned"}
    /\ \E i \in DOMAIN files :
          files' = SubSeq(files, 1, i - 1) \o SubSeq(files, i + 1, Len(files))
    /\ pc' = "idle"
    /\ UNCHANGED <<exclude_input, collected, data, table,
                   chart_names, chart_counts, printed, warned>>

\* the user edits the exclusion text
EditExclude ==
    /\ pc \in {"idle", "returned"}
    /\ \E text \in Typed \ {exclude_input} : exclude_input' = text
    /\ pc' = "idle"
    /\ UNCHANGED <<files, collected, data, table,
                   chart_names, chart_counts, printed, warned>>

Next == AddFile \/ RemoveFile \/ EditExclude \/ LoadAndAnalyze

Spec == InitWindow /\ [][Next]_vars

----------------------------------------------------------------------------
(* Ingestion: one request over every bounded directory listing *)

\* the file names of the ingestion specification and the lines each holds:
\* an empty file, a long one, and two names with one nickname
ListedNames == { <<"a", ".txt">>, <<"b", ".txt">>, <<"a", ".TXT">>, <<"c", ".txt">> }

ListedLines(filename) ==
    CASE filename = <<"a", ".txt">> -> 2
      [] filename = <<"b", ".txt">> -> 0
      [] filename = <<"a", ".TXT">> -> 2
      [] OTHER -> 1200

\* the orders in which glob may list up to n of the names, none twice
ListedOrders(n) ==
    { ns \in SeqsUpTo(ListedNames, n) :
        \A i, j \in DOMAIN ns : i # j => ns[i] # ns[j] }

\* a listing: the names in one order, every file with one outcome of each
\* of the two decodings
Listing(ns, u, s) ==
    [i \in DOMAIN ns |-> File(ns[i], u[i], s[i], ListedLines(ns[i]))]

InitIngest ==
    /\ \E ns \in ListedOrders(MaxListed) :
          \E u \in [DOMAIN ns -> Outcomes], s \in [DOMAIN ns -> Outcomes] :
              files = Listing(ns, u, s)
    /\ exclude_input = <<>>
    /\ collected = <<>>
    /\ data = <<>>
    /\ table = <<>>
    /\ chart_names = <<>>
    /\ chart_counts = <<>>
    /\ printed = <<>>
    /\ warned = FALSE
    /\ pc = "idle"

SpecIngest == InitIngest /\ [][LoadAndAnalyze]_vars

----------------------------------------------------------------------------
(* Ranking: the sort of line 121 applied to every bounded list of records,  *)
(* and applied again to its own result                                      *)

RankLabels == { <<"a">>, <<"b">> }

Records == [name : RankLabels, count : 0..MaxCount]

InitRank ==
    /\ collected \in SeqsUpTo(Records, MaxRecords)
    /\ files = <<>>
    /\ exclude_input = <<>>
    /\ data = <<>>
    /\ table = <<>>
    /\ chart_names = <<>>
    /\ chart_counts = <<>>
    /\ printed = <<>>
    /\ warned = FALSE
    /\ pc = "input"

\* data.sort(...) on the collected records
Sort ==
    /\ pc = "input"
    /\ data' = Rank(collected)
    /\ pc' = "ranked"
    /\ UNCHANGED <<files, exclude_input, collected, table,
                   chart_names, chart_counts, printed, warned>>

\* data.sort(...) on a list that is the result of the sort
SortAgain ==
    /\ pc = "ranked"
    /\ collected' = data
    /\ data' = Rank(data)
    /\ pc' = "reranked"
    /\ UNCHANGED <<files, exclude_input, table,
                   chart_names, chart_counts, printed, warned>>

NextRank == Sort \/ SortAgain

SpecRank == InitRank /\ [][NextRank]_vars

----------------------------------------------------------------------------
(* Filter: update_graph applied to every bounded ranked list and text *)

ChartLabels == { <<"a">>, <<"A">>, <<"a", "a">> }

ChartRecords == [name : ChartLabels, count : 1..MaxCount]

Alphabet == {"a", "A", ",", " "}

NonIncreasing(d) ==
    \A i, j \in DOMAIN d : i < j => d[i].count >= d[j].count

InitFilter ==
    /\ data \in {d \in SeqsUpTo(ChartRecords, MaxRanked) : NonIncreasing(d)}
    /\ exclude_input \in SeqsUpTo(Alphabet, MaxLen)
    /\ files = <<>>
    /\ collected = <<>>
    /\ table = <<>>
    /\ chart_names = <<>>
    /\ chart_counts = <<>>
    /\ printed = <<>>
    /\ warned = FALSE
    /\ pc = "input"

\* self.update_graph(data)
Draw ==
    /\ pc = "input"
    /\ UpdateGraph(data)
    /\ pc' = "drawn"
    /\ UNCHANGED <<files, exclude_input, collected, data, table, printed, warned>>

SpecFilter == InitFilter /\ [][Draw]_vars

----------------------------------------------------------------------------
(* Vocabulary of the properties, stated without the operators above *)

Occurrences(x, s) == Cardinality({i \in DOMAIN s : s[i] = x})

\* s and t hold the same entries, each as often
SameEntries(s, t) ==
    /\ Len(s) = Len(t)
    /\ \A x \in Range(s) \cup Range(t) : Occurrences(x, s) = Occurrences(x, t)

\* the entries of s with count c, in the order of s
WithCount(s, c) == SelectSeq(s, LAMBDA r : r.count = c)

\* s without the blanks before its first and after its last non-blank
Trimmed(s) ==
    LET idx == {k \in DOMAIN s : s[k] \notin {" ", "\t"}}
    IN  IF idx = {} THEN <<>>
        ELSE SubSeq(s, CHOOSE k \in idx : \A m \in idx : k <= m,
                       CHOOSE k \in idx : \A m \in idx : k >= m)

\* the non-empty trimmed terms of a comma-separated text: a term is a
\* stretch of the text bounded by commas or the ends and holding no comma
TermsOf(text) ==
    { Trimmed(SubSeq(text, i, j)) :
        <<i, j>> \in { p \in (1..(Len(text) + 1)) \X (0..Len(text)) :
                        /\ p[1] <= p[2] + 1
                        /\ \A k \in p[1]..p[2] : text[k] # ","
                        /\ (p[1] = 1 \/ text[p[1] - 1] = ",")
                        /\ (p[2] = Len(text) \/ text[p[2] + 1] = ",") } }
    \ {<<>>}

\* the chart series as records
ChartSeries ==
    [i \in 1..Len(chart_names) |-> [name |-> chart_names[i], count |-> chart_counts[i]]]

\* the file yields a count: utf-8 decodes it, or utf-8 fails to decode it
\* and cp932 decodes it
Countable(f) ==
    \/ f.utf8 = "ok"
    \/ (f.utf8 = "UnicodeDecodeError" /\ f.cp932 = "ok")

\* the stem of a file name
Stem(filename) == [i \in 1..(Len(filename) - 1) |-> filename[i]]

\* the record a countable file stands for
RecordOf(f) == [name |-> Stem(f.filename), count |-> f.lines]

RecordsOf(fs) == [i \in 1..Len(fs) |-> RecordOf(fs[i])]

DigitValue(c) ==
    CHOOSE d \in 0..9 : <<"0", "1", "2", "3", "4", "5", "6", "7", "8", "9">>[d + 1] = c

\* the number a decimal text with thousands separators denotes
RECURSIVE ParseCount(_)
ParseCount(s) ==
    IF s = <<>> THEN 0
    ELSE IF s[Len(s)] = "," THEN ParseCount(SubSeq(s, 1, Len(s) - 1))
    ELSE 10 * ParseCount(SubSeq(s, 1, Len(s) - 1)) + DigitValue(s[Len(s)])

\* the table rows as records
TableRecords ==
    [i \in 1..Len(table) |-> [name |-> table[i].name, count |-> ParseCount(table[i].count)]]

----------------------------------------------------------------------------
(* Ranking *)

\* C1: the ranking step yields a permutation of its input (same length,
\* every record kept as often as it came in, duplicates included, the empty
\* input too) whose counts are non-increasing from first to last.
C1_RankPermutesAndOrders ==
    pc \in {"ranked", "reranked"} =>
        /\ SameEntries(data, collected)
        /\ \A i \in 1..(Len(data) - 1) : data[i].count >= data[i + 1].count

\* an input with a duplicated record and a larger count behind it was ranked
C1_Witness ==
    /\ pc = "ranked"
    /\ Len(collected) = 3
    /\ collected[1] = collected[2]
    /\ collected[1].count < collected[3].count
    /\ data[1] = collected[3]
    /\ data[2] = data[3]

\* C2: ranking is stable: the records of one count stand in the ranked
\* sequence in the order they had in the input, although the sort descends.
C2_RankStable ==
    pc = "ranked" =>
        \A c \in {collected[i].count : i \in DOMAIN collected} :
            WithCount(data, c) = WithCount(collected, c)

\* two records of equal count and different labels were moved by the sort
\* behind a larger one and kept their order
C2_Witness ==
    /\ pc = "ranked"
    /\ Len(collected) = 3
    /\ collected[1].count = collected[2].count
    /\ collected[1].name # collected[2].name
    /\ collected[3].count > collected[1].count
    /\ data = <<collected[3], collected[1], collected[2]>>

\* C9: ranking is idempotent: the ranking step applied to a ranked sequence
\* returns it element by element, ties and shared labels included.
C9_RankIdempotent ==
    pc = "reranked" => data = collected

\* a ranked sequence with a tie between different labels and a label shared
\* by two records was ranked again
C9_Witness ==
    /\ pc = "reranked"
    /\ Len(collected) = 3
    /\ collected[1].count > collected[2].count
    /\ collected[2].count = collected[3].count
    /\ collected[2].name # collected[3].name
    /\ collected[1].name = collected[3].name
    /\ data = collected

----------------------------------------------------------------------------
(* Exclusion and chart series *)

\* C3: a ranked record is absent from the chart series exactly when its
\* label equals, as a whole string and case-sensitively, one of the trimmed
\* non-empty comma-separated terms of the exclusion text: every record of an
\* excluded label is removed, every other record is kept as often as ranked.
C3_ExcludedIffExactTerm ==
    pc = "drawn" =>
        /\ Len(chart_names) = Len(chart_counts)
        /\ \A r \in Range(data) \cup Range(ChartSeries) :
              Occurrences(r, ChartSeries) =
                  IF r.name \in TermsOf(exclude_input) THEN 0 ELSE Occurrences(r, data)

\* the term " a" of the text, trimmed, removed the record labelled "a" and
\* left the record labelled "aa", whose label only contains the term
C3_Witness ==
    /\ pc = "drawn"
    /\ Names(data) = << <<"a", "a">>, <<"a">> >>
    /\ Len(exclude_input) = 4
    /\ exclude_input[1] = " "
    /\ exclude_input[2] = "a"
    /\ TermsOf(exclude_input) = { <<"a">>, <<"A">> }
    /\ chart_names = << <<"a", "a">> >>
    /\ chart_counts = << data[1].count >>

\* C4: when the exclusion text holds nothing but commas and whitespace (or
\* nothing at all), the labels and counts handed to the bar chart are the
\* ranked sequence in reversed order, nothing removed.
C4_NoTermsChartIsReversedRanking ==
    (pc = "drawn" /\ \A i \in DOMAIN exclude_input : exclude_input[i] \in {",", " ", "\t"}) =>
        /\ Len(chart_names) = Len(data)
        /\ Len(chart_counts) = Len(data)
        /\ \A i \in DOMAIN data :
              /\ chart_names[i] = data[Len(data) + 1 - i].name
              /\ chart_counts[i] = data[Len(data) + 1 - i].count

\* a text of commas and blanks was applied to a ranking of two different
\* records, and the chart holds them last first
C4_Witness ==
    /\ pc = "drawn"
    /\ Len(exclude_input) >= 3
    /\ "," \in Range(exclude_input)
    /\ " " \in Range(exclude_input)
    /\ \A i \in DOMAIN exclude_input : exclude_input[i] \in {",", " "}
    /\ Len(data) = 2
    /\ data[1].count > data[2].count
    /\ data[1].name # data[2].name
    /\ chart_names = <<data[2].name, data[1].name>>
    /\ chart_counts = <<data[2].count, data[1].count>>

----------------------------------------------------------------------------
(* Ingestion *)

\* C5: in one pass a file that cannot be read is skipped, with no record
\* (not a zero-count one) and one diagnostic, and the pass goes on: the
\* record list holds one record per readable file in discovery order and the
\* diagnostics name the other files, once each, in discovery order.
C5_UnreadableSkippedOthersKept ==
    pc = "returned" =>
        /\ collected = RecordsOf(SelectSeq(files, Countable))
        /\ [i \in 1..Len(printed) |-> printed[i].filename]
              = [i \in 1..Len(SelectSeq(files, LAMBDA f : ~Countable(f))) |->
                    SelectSeq(files, LAMBDA f : ~Countable(f))[i].filename]

\* an undecodable file stood between two readable ones
C5_Witness ==
    /\ pc = "returned"
    /\ Len(files) = 3
    /\ files[1].utf8 = "ok"
    /\ files[2].utf8 = "UnicodeDecodeError" /\ files[2].cp932 = "UnicodeDecodeError"
    /\ files[3].utf8 = "ok"
    /\ Len(collected) = 2
    /\ collected[1].name = Stem(files[1].filename)
    /\ collected[2].name = Stem(files[3].filename)
    /\ Len(printed) = 1
    /\ printed[1].filename = files[2].filename

\* C6: utf-8 is tried first and cp932 only after utf-8 fails to decode: a
\* file utf-8 decodes is counted whatever cp932 would do, a file only cp932
\* decodes is counted with its line count, and a file whose utf-8 attempt
\* fails otherwise is skipped with that failure although cp932 may decode it.
C6_FallbackOnlyAfterDecodeError ==
    pc = "returned" =>
        /\ Len(collected) = Cardinality({i \in DOMAIN files : Countable(files[i])})
        /\ \A i \in DOMAIN files :
            LET f    == files[i]
                rec  == [name |-> Stem(f.filename), count |-> f.lines]
                diag(e) == [filename |-> f.filename, error |-> e]
            IN  /\ f.utf8 = "ok" =>
                      /\ rec \in Range(collected)
                      /\ \A p \in Range(printed) : p.filename # f.filename
                /\ (f.utf8 = "UnicodeDecodeError" /\ f.cp932 = "ok") =>
                      /\ rec \in Range(collected)
                      /\ \A p \in Range(printed) : p.filename # f.filename
                /\ (f.utf8 = "UnicodeDecodeError" /\ f.cp932 # "ok") =>
                      diag(f.cp932) \in Range(printed)
                /\ f.utf8 = "OSError" =>
                      diag("OSError") \in Range(printed)

\* one file was counted through the fallback and another, which cp932 would
\* decode, was skipped because its utf-8 attempt failed without a decode error
C6_Witness ==
    /\ pc = "returned"
    /\ Len(files) = 2
    /\ files[1].utf8 = "UnicodeDecodeError" /\ files[1].cp932 = "ok"
    /\ files[1].lines = 1200
    /\ files[2].utf8 = "OSError" /\ files[2].cp932 = "ok"
    /\ collected = <<[name |-> <<"c">>, count |-> 1200]>>
    /\ Len(printed) = 1
    /\ printed[1].filename = files[2].filename

----------------------------------------------------------------------------
(* The window over a sequence of requests *)

\* the display shows what the directory listing and the exclusion text of
\* the latest request yield: a row per countable file, a bar per countable
\* file whose label is no exclusion term, and nothing else
DisplayIsOfLatestRequest ==
    LET counted == RecordsOf(SelectSeq(files, Countable))
        charted == SelectSeq(counted, LAMBDA r : r.name \notin TermsOf(exclude_input))
    IN  /\ SameEntries(TableRecords, counted)
        /\ Len(chart_names) = Len(chart_counts)
        /\ SameEntries(ChartSeries, charted)

\* C7: a request that finds no *.txt file raises the notice and stops with
\* an empty result; the table and the chart stay as they were before it.
C7_NoFilesLeavesDisplay ==
    [][(pc' = "returned" /\ files' = <<>>) =>
           /\ warned'
           /\ data' = <<>>
           /\ table' = table
           /\ chart_names' = chart_names
           /\ chart_counts' = chart_counts]_vars

\* a request over an emptied directory returned with the notice while the
\* table and the chart still show an earlier request's result
C7_Witness ==
    /\ pc = "returned"
    /\ files = <<>>
    /\ warned
    /\ data = <<>>
    /\ Len(table) = 2
    /\ Len(chart_names) = 2

\* C8, for every request: after it, the empty-directory one included, the
\* table rows and the chart series are those of the directory the latest
\* request saw.
C8_AsStated ==
    pc = "returned" => DisplayIsOfLatestRequest

\* C8, for requests that find files: after every request that found at least one *.txt file,
\* the table rows and the chart series are those computed from the directory
\* listing and exclusion text that request saw, nothing carried over.
C8_DisplayReplacedWhenFilesFound ==
    (pc = "returned" /\ files # <<>>) => DisplayIsOfLatestRequest

\* a request over the listing c.txt (undecodable), b.txt, a.TXT with the
\* label "a" excluded returned: two rows, a.TXT first, and the one bar of b
C8_Witness ==
    /\ pc = "returned"
    /\ Len(files) = 3
    /\ files[1].filename = <<"c", ".txt">>
    /\ files[2].filename = <<"b", ".txt">>
    /\ files[3].filename = <<"a", ".TXT">>
    /\ exclude_input = <<"a">>
    /\ Len(table) = 2
    /\ table[1].name = <<"a">>
    /\ table[2].name = <<"b">>
    /\ chart_names = << <<"b">> >>
    /\ chart_counts = <<3>>

\* C10: after every request that found at least one *.txt file the table
\* holds the full ranked sequence, row i with rank i (from 1), label and
\* count of the i-th ranked record, whatever the exclusion text is.
C10_TableIsFullRanking ==
    (pc = "returned" /\ files # <<>>) =>
        /\ Len(table) = Len(data)
        /\ Len(data) = Cardinality({i \in DOMAIN files : Countable(files[i])})
        /\ \A i \in DOMAIN table :
              /\ ParseCount(table[i].rank) = i
              /\ table[i].name = data[i].name
              /\ ParseCount(table[i].count) = data[i].count
        /\ \A i \in 1..(Len(table) - 1) :
              ParseCount(table[i].count) >= ParseCount(table[i + 1].count)

\* with the label "a" excluded from the chart, the table still holds both
\* records labelled "a", ranked 1 and 2
C10_Witness ==
    /\ pc = "returned"
    /\ exclude_input = <<"a">>
    /\ chart_names = <<>>
    /\ Len(table) = 2
    /\ table[1] = [rank |-> <<"1">>, name |-> <<"a">>, count |-> <<"1", ",", "2", "0", "0">>]
    /\ table[2] = [rank |-> <<"2">>, name |-> <<"a">>, count |-> <<"3">>]

====
